---------------------------- MODULE Spec2Model ----------------------------
(***************************************************************************)
(* Model of compute/src/emulator_service.rs: the typed representation of   *)
(* the machine-manager grpc interface and its conversions from and to the  *)
(* generated protobuf types.                                               *)
(*                                                                         *)
(* Spec        callers that reach a machine manager through the typed      *)
(*             requests and results of this file.  The manager is not part *)
(*             of the file: it is modelled from the specification.         *)
(* SpecTwice   one run over several checkpoints against one run per        *)
(*             checkpoint, on two copies of a session.                     *)
(* SpecDecode  the conversions applied to arbitrary wire messages, several *)
(*             requests being in flight in one process.                    *)
(***************************************************************************)
EXTENDS Integers, Sequences, FiniteSets, TLC

VARIABLES
    inflight,     \* SpecDecode: slot -> [kind, input, status, panic, val]
    alive,        \* SpecDecode: the process decoding the requests is running
    strictHash,   \* whether the linked H256::from_slice asserts the length
    sessions,     \* Spec: the manager's registry, session id -> session
    callers,      \* Spec: caller -> [pc, op, request, bytes, error, result]
    twice         \* SpecTwice: the checkpoints, and the hashes got both ways

vars == <<inflight, alive, strictHash, sessions, callers, twice>>

---------------------------------------------------------------------------
(* Bounds of the model *)

MaxLogLen == 2      \* accesses in a sampled wire log
MaxHashes == 2      \* hashes in a wire SessionRunResult
MaxSiblings == 1    \* sibling hashes in a wire Proof
MaxCycle == 2       \* highest cycle a request names
MaxCheckpoints == 2 \* checkpoints in a run request
MaxSnapshots == 2   \* snapshots a session retains
MaxParts == 3       \* checkpoints of the run that SpecTwice splits

(* Program constants *)

WordLen == 8        \* [u8; 8]
HashLen == 32       \* H256

---------------------------------------------------------------------------
(* Option<T> and the outcome of a call that may panic *)

None == <<>>
Some(v) == <<v>>

Ok(v) == [panic |-> "", val |-> <<v>>]
Panic(msg) == [panic |-> msg, val |-> <<>>]
IsOk(r) == r.panic = ""
Unwrap(r) == r.val[1]

(* Option::expect *)
Expect(opt, msg) == IF opt = None THEN Panic(msg) ELSE Ok(opt[1])

---------------------------------------------------------------------------
(* Byte strings *)

Fill(n, b) == [i \in 1..n |-> b]
Ramp(n, k) == [i \in 1..n |-> k + i]

(* H256::from_slice of ethereum_types: the bytes themselves when there are *)
(* HashLen of them.  On any other length the fixed-hash release linked     *)
(* decides: it either asserts the length, or copies the common prefix      *)
(* into a zeroed hash.                                                     *)
H256FromSlice(content) ==
    IF Len(content) = HashLen THEN Ok(content)
    ELSE IF strictHash THEN Panic("assertion failed: src.len() == 32")
    ELSE Ok([i \in 1..HashLen |-> IF i <= Len(content) THEN content[i] ELSE 0])

RECURSIVE CollectHashesReversed(_)
CollectHashesReversed(hashes) ==
    IF hashes = <<>> THEN Ok(<<>>)
    ELSE LET h == H256FromSlice(Head(hashes).content) IN
         IF ~IsOk(h) THEN h
         ELSE LET rest == CollectHashesReversed(Tail(hashes)) IN
              IF ~IsOk(rest) THEN rest
              ELSE Ok(Unwrap(rest) \o <<Unwrap(h)>>)

(* hashes.into_vec().into_iter().map(|hash| H256::from_slice(&hash.content)) *)
(*       .collect()                                                        *)
RECURSIVE CollectHashes(_)
CollectHashes(hashes) ==
    IF hashes = <<>> THEN Ok(<<>>)
    ELSE LET h == H256FromSlice(Head(hashes).content) IN
         IF ~IsOk(h) THEN h
         ELSE LET rest == CollectHashes(Tail(hashes)) IN
              IF ~IsOk(rest) THEN rest
              ELSE Ok(<<Unwrap(h)>> \o Unwrap(rest))

to_bytes_AtLeast(input) ==
    IF Len(input) < WordLen THEN None
    ELSE Some(<<input[1], input[2], input[3], input[4],
                input[5], input[6], input[7], input[8]>>)

(* fn to_bytes(input: Vec<u8>) -> Option<[u8; 8]> *)
to_bytes(input) ==
    IF Len(input) # WordLen THEN None
    ELSE Some(<<input[1], input[2], input[3], input[4],
                input[5], input[6], input[7], input[8]>>)

AccessOperationFromSwapped(op) ==
    CASE op = "READ" -> "Write"
      [] op = "WRITE" -> "Read"

(* impl From<cartesi_base::AccessOperation> for AccessOperation *)
AccessOperationFrom(op) ==
    CASE op = "READ" -> "Read"
      [] op = "WRITE" -> "Write"

(* impl From<cartesi_base::Proof> for Proof *)
ProofFrom(proof) ==
    LET target == Expect(proof.target_hash, "target hash not found") IN
    IF ~IsOk(target) THEN target ELSE
    LET target_hash == H256FromSlice(Unwrap(target).content) IN
    IF ~IsOk(target_hash) THEN target_hash ELSE
    LET sibling_hashes == CollectHashes(proof.sibling_hashes) IN
    IF ~IsOk(sibling_hashes) THEN sibling_hashes ELSE
    LET root == Expect(proof.root_hash, "root hash not found") IN
    IF ~IsOk(root) THEN root ELSE
    LET root_hash == H256FromSlice(Unwrap(root).content) IN
    IF ~IsOk(root_hash) THEN root_hash ELSE
    Ok([address |-> proof.address,
        log2_size |-> proof.log2_size,
        target_hash |-> Unwrap(target_hash),
        sibling_hashes |-> Unwrap(sibling_hashes),
        root_hash |-> Unwrap(root_hash)])

(* address: proof.address, in impl From<cartesi_base::Access> for Access *)
AccessAddressFromSize(proof) == proof.log2_size
AccessAddress(proof) == proof.address

(* impl From<cartesi_base::Access> for Access *)
AccessFrom(access) ==
    LET wproof == Expect(access.proof, "proof not found") IN
    IF ~IsOk(wproof) THEN wproof ELSE
    LET proof == ProofFrom(Unwrap(wproof)) IN
    IF ~IsOk(proof) THEN proof ELSE
    LET read == Expect(access.read, "read access not found") IN
    IF ~IsOk(read) THEN read ELSE
    LET value_read == Expect(to_bytes(Unwrap(read).content),
                             "read value has the wrong size") IN
    IF ~IsOk(value_read) THEN value_read ELSE
    LET written == Expect(access.written, "write access not found") IN
    IF ~IsOk(written) THEN written ELSE
    LET value_written == Expect(to_bytes(Unwrap(written).content),
                                "write value has the wrong size") IN
    IF ~IsOk(value_written) THEN value_written ELSE
    Ok([operation |-> AccessOperationFrom(access.operation),
        address |-> AccessAddress(Unwrap(proof)),
        value_read |-> Unwrap(value_read),
        value_written |-> Unwrap(value_written),
        proof |-> Unwrap(proof)])

RECURSIVE CollectAccessesReversed(_)
CollectAccessesReversed(accesses) ==
    IF accesses = <<>> THEN Ok(<<>>)
    ELSE LET a == AccessFrom(Head(accesses)) IN
         IF ~IsOk(a) THEN a
         ELSE LET rest == CollectAccessesReversed(Tail(accesses)) IN
              IF ~IsOk(rest) THEN rest
              ELSE Ok(Unwrap(rest) \o <<Unwrap(a)>>)

(* accesses.into_vec().into_iter().map(|hash| hash.into()).collect() *)
RECURSIVE CollectAccesses(_)
CollectAccesses(accesses) ==
    IF accesses = <<>> THEN Ok(<<>>)
    ELSE LET a == AccessFrom(Head(accesses)) IN
         IF ~IsOk(a) THEN a
         ELSE LET rest == CollectAccesses(Tail(accesses)) IN
              IF ~IsOk(rest) THEN rest
              ELSE Ok(<<Unwrap(a)>> \o Unwrap(rest))

(* impl From<manager_high::SessionStepResult> for SessionStepResult *)
SessionStepResultFrom(result) ==
    LET wlog == Expect(result.log, "log not found") IN
    IF ~IsOk(wlog) THEN wlog ELSE
    LET log == CollectAccesses(Unwrap(wlog).accesses) IN
    IF ~IsOk(log) THEN log ELSE
    Ok([log |-> Unwrap(log)])

(* impl From<manager_high::SessionRunResult> for SessionRunResult *)
SessionRunResultFrom(result) ==
    LET hashes == CollectHashes(result.hashes) IN
    IF ~IsOk(hashes) THEN hashes ELSE
    Ok([hashes |-> Unwrap(hashes)])

(* impl From<cartesi_base::Hash> for NewSessionResult *)
NewSessionResultFrom(result) ==
    LET hash == H256FromSlice(result.content) IN
    IF ~IsOk(hash) THEN hash ELSE
    Ok([hash |-> Unwrap(hash)])

(* impl From<manager_high::NewSessionRequest> for NewSessionRequest *)
NewSessionRequestFrom(result) ==
    LET machine == Expect(result.machine, "machine not found") IN
    IF ~IsOk(machine) THEN machine ELSE
    Ok([machine |-> Unwrap(machine), session_id |-> result.session_id])

(* impl From<manager_high::SessionRunRequest> for SessionRunRequest *)
SessionRunRequestFrom(result) ==
    Ok([session_id |-> result.session_id, times |-> result.final_cycles])

(* impl From<manager_high::SessionStepRequest> for SessionStepRequest *)
SessionStepRequestFrom(result) ==
    Ok([session_id |-> result.session_id, time |-> result.initial_cycle])

(* impl From<manager_high::SessionReadMemoryRequest> for SessionReadMemoryRequest *)
SessionReadMemoryRequestFrom(result) ==
    LET position == Expect(result.position, "position not found") IN
    IF ~IsOk(position) THEN position ELSE
    Ok([session_id |-> result.session_id,
        time |-> result.cycle,
        position |-> Unwrap(position)])

(* impl From<cartesi_base::ReadMemoryResponse> for ReadMemoryResponse *)
ReadMemoryResponseFrom(read) == [data |-> read.data]

(* impl From<manager_high::SessionReadMemoryResult> for SessionReadMemoryResult *)
SessionReadMemoryResultFrom(result) ==
    LET read_content == Expect(result.read_content, "read_content not found") IN
    IF ~IsOk(read_content) THEN read_content ELSE
    Ok([read_content |-> ReadMemoryResponseFrom(Unwrap(read_content))])

(* impl From<manager_high::SessionGetProofRequest> for SessionGetProofRequest *)
SessionGetProofRequestFrom(result) ==
    LET target == Expect(result.target, "target not found") IN
    IF ~IsOk(target) THEN target ELSE
    Ok([session_id |-> result.session_id,
        time |-> result.cycle,
        target |-> Unwrap(target)])

(* impl From<cartesi_base::Proof> for SessionGetProofResult *)
SessionGetProofResultFrom(proof) ==
    LET p == ProofFrom(proof) IN
    IF ~IsOk(p) THEN p ELSE
    Ok([proof |-> Unwrap(p)])

---------------------------------------------------------------------------
(* The protobuf marshaller (grpc::protobuf::MarshallerProtobuf): write     *)
(* gives the bytes of a message, read gives the message back, or an Err    *)
(* on bytes that are no message.                                           *)

MarshallerWrite(msg) == [proto |-> Some(msg)]
MarshallerRead(bytes) == bytes.proto

(* Result::unwrap *)
UnwrapRead(res) == Expect(res, "called Result::unwrap() on an Err value")

(* impl From<Vec<u8>> for SessionRunResult *)
SessionRunResultFromBytes(response) ==
    LET m == UnwrapRead(MarshallerRead(response)) IN
    IF ~IsOk(m) THEN m ELSE SessionRunResultFrom(Unwrap(m))

(* impl From<Vec<u8>> for SessionStepResult *)
SessionStepResultFromBytes(response) ==
    LET m == UnwrapRead(MarshallerRead(response)) IN
    IF ~IsOk(m) THEN m ELSE SessionStepResultFrom(Unwrap(m))

(* impl From<Vec<u8>> for NewSessionResult *)
NewSessionResultFromBytes(response) ==
    LET m == UnwrapRead(MarshallerRead(response)) IN
    IF ~IsOk(m) THEN m ELSE NewSessionResultFrom(Unwrap(m))

(* impl From<Vec<u8>> for SessionReadMemoryResult *)
SessionReadMemoryResultFromBytes(response) ==
    LET m == UnwrapRead(MarshallerRead(response)) IN
    IF ~IsOk(m) THEN m ELSE SessionReadMemoryResultFrom(Unwrap(m))

(* impl From<Vec<u8>> for SessionGetProofResult *)
SessionGetProofResultFromBytes(response) ==
    LET m == UnwrapRead(MarshallerRead(response)) IN
    IF ~IsOk(m) THEN m ELSE SessionGetProofResultFrom(Unwrap(m))

(* impl From<Vec<u8>> for NewSessionRequest *)
NewSessionRequestFromBytes(response) ==
    LET m == UnwrapRead(MarshallerRead(response)) IN
    IF ~IsOk(m) THEN m ELSE NewSessionRequestFrom(Unwrap(m))

SessionRunRequestToBytesNoCycles(request) ==
    MarshallerWrite([session_id |-> request.session_id,
                     final_cycles |-> <<>>])

(* impl From<SessionRunRequest> for Vec<u8> *)
SessionRunRequestToBytes(request) ==
    MarshallerWrite([session_id |-> request.session_id,
                     final_cycles |-> request.times])

(* impl From<SessionStepRequest> for Vec<u8> *)
SessionStepRequestToBytes(request) ==
    MarshallerWrite([session_id |-> request.session_id,
                     initial_cycle |-> request.time])

(* impl From<NewSessionRequest> for Vec<u8> *)
NewSessionRequestToBytes(request) ==
    MarshallerWrite([session_id |-> request.session_id,
                     machine |-> Some(request.machine)])

(* impl From<SessionReadMemoryRequest> for Vec<u8> *)
SessionReadMemoryRequestToBytes(request) ==
    MarshallerWrite([session_id |-> request.session_id,
                     cycle |-> request.time,
                     position |-> Some(request.position)])

(* impl From<SessionGetProofRequest> for Vec<u8> *)
SessionGetProofRequestToBytes(request) ==
    MarshallerWrite([session_id |-> request.session_id,
                     cycle |-> request.time,
                     target |-> Some(request.target)])

---------------------------------------------------------------------------
(* The conversion a request of each kind goes through *)

Convert(kind, input) ==
    CASE kind = "SessionRunResult" -> SessionRunResultFromBytes(input)
      [] kind = "SessionStepResult" -> SessionStepResultFromBytes(input)
      [] kind = "NewSessionResult" -> NewSessionResultFromBytes(input)
      [] kind = "SessionReadMemoryResult" -> SessionReadMemoryResultFromBytes(input)
      [] kind = "SessionGetProofResult" -> SessionGetProofResultFromBytes(input)
      [] kind = "NewSessionRequest" -> NewSessionRequestFromBytes(input)
      [] kind = "SessionRunRequest" -> SessionRunRequestFrom(input)
      [] kind = "SessionStepRequest" -> SessionStepRequestFrom(input)
      [] kind = "SessionReadMemoryRequest" -> SessionReadMemoryRequestFrom(input)
      [] kind = "SessionGetProofRequest" -> SessionGetProofRequestFrom(input)

---------------------------------------------------------------------------
(* Wire messages the decoding is checked on *)

RECURSIVE SeqsUpTo(_, _)
SeqsUpTo(S, n) ==
    IF n = 0 THEN {<<>>}
    ELSE LET shorter == SeqsUpTo(S, n - 1) IN
         shorter \cup {Append(q, x) : q \in {p \in shorter : Len(p) = n - 1}, x \in S}

GoodHashA == Ramp(HashLen, 0)
GoodHashB == Ramp(HashLen, 100)
ShortHash == Ramp(HashLen - 1, 0)
LongHash == Ramp(HashLen + 1, 0)

WireHash(c) == [content |-> c]
WireWord(c) == [content |-> c]

WordContents ==
    {<<>>, Ramp(WordLen - 1, 0), Fill(WordLen, 0), Ramp(WordLen, 0),
     Ramp(WordLen + 1, 0)}
OptWords == {None} \cup {Some(WireWord(c)) : c \in WordContents}

SessionIds == {"a", "b"}
Addresses == {0, 8}

WireProofs ==
    [address : Addresses,
     log2_size : {3},
     target_hash : {None, Some(WireHash(GoodHashA)), Some(WireHash(ShortHash))},
     sibling_hashes : SeqsUpTo({WireHash(GoodHashB), WireHash(LongHash)}, MaxSiblings),
     root_hash : {None, Some(WireHash(GoodHashB))}]

GoodProof(addr) ==
    [address |-> addr, log2_size |-> 3,
     target_hash |-> Some(WireHash(GoodHashA)),
     sibling_hashes |-> <<WireHash(GoodHashB)>>,
     root_hash |-> Some(WireHash(GoodHashB))]

(* accesses varying the two words under one proof, and accesses varying    *)
(* the proof under one pair of words                                       *)
WireAccesses ==
    [operation : {"READ", "WRITE"}, read : OptWords, written : OptWords,
     proof : {Some(GoodProof(0))}]
    \cup
    [operation : {"READ", "WRITE"},
     read : {Some(WireWord(Ramp(WordLen, 0)))},
     written : {Some(WireWord(Fill(WordLen, 0)))},
     proof : {None, Some(GoodProof(8)),
              Some([GoodProof(8) EXCEPT !.target_hash = None]),
              Some([GoodProof(0) EXCEPT !.root_hash = None]),
              Some([GoodProof(8) EXCEPT !.sibling_hashes = <<WireHash(ShortHash)>>])}]

(* a few accesses a log of several entries is built from *)
SampleAccesses ==
    {[operation |-> "READ", read |-> Some(WireWord(Ramp(WordLen, 0))),
      written |-> Some(WireWord(Fill(WordLen, 0))), proof |-> Some(GoodProof(0))],
     [operation |-> "WRITE", read |-> Some(WireWord(Ramp(WordLen, 0))),
      written |-> Some(WireWord(Ramp(WordLen, 1))), proof |-> Some(GoodProof(8))],
     [operation |-> "WRITE", read |-> Some(WireWord(Ramp(WordLen, 0))),
      written |-> Some(WireWord(Ramp(WordLen - 1, 0))), proof |-> Some(GoodProof(0))],
     [operation |-> "READ", read |-> Some(WireWord(Ramp(WordLen, 0))),
      written |-> Some(WireWord(Fill(WordLen, 0))), proof |-> None]}

WireLogs ==
    SeqsUpTo(SampleAccesses, MaxLogLen) \cup {<<a>> : a \in WireAccesses}

WireStepResults ==
    {[log |-> None]} \cup {[log |-> Some([accesses |-> l])] : l \in WireLogs}

WireRunResults ==
    [hashes : SeqsUpTo({WireHash(GoodHashA), WireHash(GoodHashB), WireHash(ShortHash)},
                       MaxHashes)]

WireHashes == {WireHash(c) : c \in {GoodHashA, GoodHashB, ShortHash, LongHash}}

Machines == {"image1", "image2"}

WireNewSessionRequests ==
    [session_id : SessionIds, machine : {None} \cup {Some(m) : m \in Machines}]

WireReadMemoryResults ==
    [read_content : {None, Some([data |-> <<>>]), Some([data |-> Ramp(WordLen, 0)])}]

WireReadMemoryRequests ==
    [session_id : SessionIds, cycle : {0, 1},
     position : {None, Some([address |-> 0, length |-> WordLen])}]

WireGetProofRequests ==
    [session_id : SessionIds, cycle : {0, 1},
     target : {None, Some([address |-> 0, log2_size |-> 3])}]

WireRunRequests ==
    [session_id : SessionIds, final_cycles : SeqsUpTo({0, 1}, 2)]

WireStepRequests ==
    [session_id : SessionIds, initial_cycle : {0, 1}]

Garbage == [proto |-> None]

BytesOf(msgs) == {MarshallerWrite(m) : m \in msgs} \cup {Garbage}

(* the inputs of a kind: bytes where the conversion starts from Vec<u8>,   *)
(* a generated message where it starts from the generated type             *)
Inputs(kind) ==
    CASE kind = "SessionRunResult" -> BytesOf(WireRunResults)
      [] kind = "SessionStepResult" -> BytesOf(WireStepResults)
      [] kind = "NewSessionResult" -> BytesOf(WireHashes)
      [] kind = "SessionReadMemoryResult" -> BytesOf(WireReadMemoryResults)
      [] kind = "SessionGetProofResult" -> BytesOf(WireProofs)
      [] kind = "NewSessionRequest" -> BytesOf(WireNewSessionRequests)
      [] kind = "SessionRunRequest" -> WireRunRequests
      [] kind = "SessionStepRequest" -> WireStepRequests
      [] kind = "SessionReadMemoryRequest" -> WireReadMemoryRequests
      [] kind = "SessionGetProofRequest" -> WireGetProofRequests

Kinds ==
    {"SessionRunResult", "SessionStepResult", "NewSessionResult",
     "SessionReadMemoryResult", "SessionGetProofResult", "NewSessionRequest",
     "SessionRunRequest", "SessionStepRequest", "SessionReadMemoryRequest",
     "SessionGetProofRequest"}

---------------------------------------------------------------------------
(* SpecDecode: requests in flight in one process, each decoded by the      *)
(* conversion of its kind.  A conversion that panics returns nothing: the  *)
(* panic leaves From::from through its caller.  Where it stops is not      *)
(* decided by this file: at a boundary around the one request, or by       *)
(* taking down what else runs with it (panic = "abort", or a thread that   *)
(* several requests share).                                                *)

Slots == {"r1", "r2"}

IdleSlot == [kind |-> "", input |-> Garbage, status |-> "idle", panic |-> "", val |-> <<>>]

InitDecode ==
    /\ inflight = [r \in Slots |-> IdleSlot]
    /\ alive = TRUE
    /\ strictHash \in BOOLEAN
    /\ sessions = <<>>
    /\ callers = <<>>
    /\ twice = <<>>

Receive(r) ==
    /\ alive
    /\ inflight[r].status = "idle"
    /\ \E kind \in Kinds : \E input \in Inputs(kind) :
         inflight' = [inflight EXCEPT ![r] =
                        [IdleSlot EXCEPT !.kind = kind, !.input = input,
                                         !.status = "pending"]]
    /\ UNCHANGED <<alive, strictHash, sessions, callers, twice>>

DecodeReturns(r) ==
    /\ alive
    /\ inflight[r].status = "pending"
    /\ LET res == Convert(inflight[r].kind, inflight[r].input) IN
       /\ IsOk(res)
       /\ inflight' = [inflight EXCEPT ![r].status = "decoded", ![r].val = res.val]
    /\ UNCHANGED <<alive, strictHash, sessions, callers, twice>>

DecodePanicsContained(r) ==
    /\ alive
    /\ inflight[r].status = "pending"
    /\ LET res == Convert(inflight[r].kind, inflight[r].input) IN
       /\ ~IsOk(res)
       /\ inflight' = [inflight EXCEPT ![r].status = "panicked", ![r].panic = res.panic]
    /\ UNCHANGED <<alive, strictHash, sessions, callers, twice>>

DecodePanicsUncontained(r) ==
    /\ alive
    /\ inflight[r].status = "pending"
    /\ LET res == Convert(inflight[r].kind, inflight[r].input) IN
       /\ ~IsOk(res)
       /\ inflight' = [q \in Slots |->
                         IF q = r
                         THEN [inflight[q] EXCEPT !.status = "panicked", !.panic = res.panic]
                         ELSE IF inflight[q].status = "pending"
                         THEN [inflight[q] EXCEPT !.status = "aborted"]
                         ELSE inflight[q]]
    /\ alive' = FALSE
    /\ UNCHANGED <<strictHash, sessions, callers, twice>>

NextDecode ==
    \E r \in Slots :
        \/ Receive(r)
        \/ DecodeReturns(r)
        \/ DecodePanicsContained(r)
        \/ DecodePanicsUncontained(r)

SpecDecode == InitDecode /\ [][NextDecode]_vars

---------------------------------------------------------------------------
(* The machine manager, modelled from the specification.                   *)
(*                                                                         *)
(* The emulated machine is a pure function of (initial state, cycle        *)
(* count): one 8-byte word at address 0, which a step reads and then       *)
(* writes incremented.  Its state hash is an injective image of the word.  *)

Genesis(image) == [word |-> IF image = "image1" THEN 0 ELSE 16]

StepState(st) == [word |-> st.word + 1]

RECURSIVE Replay(_, _)
Replay(st, n) == IF n = 0 THEN st ELSE Replay(StepState(st), n - 1)

RECURSIVE ByteAt(_, _)
ByteAt(n, i) == IF i = 1 THEN n % 256 ELSE ByteAt(n \div 256, i - 1)
WordBytes(n) == [i \in 1..WordLen |-> ByteAt(n, i)]

MachineHash(st) == [i \in 1..HashLen |-> (5 * st.word + i) % 256]

ProofOf(st) ==
    [address |-> 0, log2_size |-> 3,
     target_hash |-> Some(WireHash(MachineHash(st))),
     sibling_hashes |-> <<>>,
     root_hash |-> Some(WireHash(MachineHash(st)))]

(* the accesses of one step, in the order the machine performs them: for   *)
(* a read, written is the zero word                                        *)
StepAccesses(st) ==
    <<[operation |-> "READ",
       read |-> Some(WireWord(WordBytes(st.word))),
       written |-> Some(WireWord(Fill(WordLen, 0))),
       proof |-> Some(ProofOf(st))],
      [operation |-> "WRITE",
       read |-> Some(WireWord(WordBytes(st.word))),
       written |-> Some(WireWord(WordBytes(StepState(st).word))),
       proof |-> Some(ProofOf(st))]>>

NoSession ==
    [registered |-> FALSE, machine |-> "", state |-> [word |-> 0],
     current_cycle |-> 0, snapshots |-> <<>>, lock |-> ""]

(* a new Session, its Snapshot Store seeded with the cycle-0 snapshot *)
NewSession(image) ==
    [registered |-> TRUE, machine |-> image, state |-> Genesis(image),
     current_cycle |-> 0,
     snapshots |-> <<[cycle |-> 0, state |-> Genesis(image)]>>,
     lock |-> ""]

(* the retained snapshot nearest below a cycle *)
NearestSnapshot(sess, c) ==
    LET below == {i \in 1..Len(sess.snapshots) : sess.snapshots[i].cycle <= c}
        best == CHOOSE i \in below :
                    \A j \in below : sess.snapshots[j].cycle <= sess.snapshots[i].cycle
    IN sess.snapshots[best]

(* advance, or rewind through the Snapshot Store, to exactly cycle c *)
MoveTo(sess, c) ==
    IF c >= sess.current_cycle
    THEN [sess EXCEPT !.state = Replay(sess.state, c - sess.current_cycle),
                      !.current_cycle = c]
    ELSE LET snap == NearestSnapshot(sess, c) IN
         [sess EXCEPT !.state = Replay(snap.state, c - snap.cycle),
                      !.current_cycle = c]

(* retain the current state; the cycle-0 anchor is never evicted *)
TakeSnapshot(sess) ==
    IF \E i \in 1..Len(sess.snapshots) : sess.snapshots[i].cycle = sess.current_cycle
    THEN sess
    ELSE LET all == Append(sess.snapshots,
                           [cycle |-> sess.current_cycle, state |-> sess.state])
         IN [sess EXCEPT !.snapshots =
                IF Len(all) <= MaxSnapshots THEN all
                ELSE <<all[1]>> \o SubSeq(all, 3, Len(all))]

StrictlyAscending(checkpoints) ==
    \A i \in 1..(Len(checkpoints) - 1) : checkpoints[i] < checkpoints[i + 1]

(* 4.2 Run: one hash per checkpoint, in the same order *)
RECURSIVE RunLoop(_, _, _)
RunLoop(sess, checkpoints, hashes) ==
    IF checkpoints = <<>> THEN [session |-> sess, hashes |-> hashes]
    ELSE LET at == MoveTo(sess, Head(checkpoints)) IN
         RunLoop(at, Tail(checkpoints), Append(hashes, WireHash(MachineHash(at.state))))

RunProcedure(sess, checkpoints) ==
    LET done == RunLoop(sess, checkpoints, <<>>) IN
    [session |-> TakeSnapshot(done.session),
     reply |-> [hashes |-> done.hashes]]

(* 4.3 Step: move to the cycle, execute one step and log its accesses *)
StepProcedure(sess, cycle) ==
    LET at == MoveTo(sess, cycle) IN
    [session |-> TakeSnapshot([at EXCEPT !.state = StepState(at.state),
                                        !.current_cycle = cycle + 1]),
     reply |-> [log |-> Some([accesses |-> StepAccesses(at.state)])]]

AlwaysFree(sess) == TRUE

(* each Session is a single-writer resource *)
LockFree(sess) == sess.lock = ""

NeverDuplicate(sess) == FALSE

(* create_session fails with DuplicateSessionId if the id is registered *)
DuplicateSessionId(sess) == sess.registered

---------------------------------------------------------------------------
(* Spec: the callers, the requests they send and the results they decode   *)

Callers == {"c1", "c2"}

Cycles == 0..MaxCycle

IdleCaller ==
    [pc |-> "idle", op |-> "", request |-> <<>>, bytes |-> Garbage,
     error |-> "", result |-> <<>>]

(* the ids callers name; the registry starts empty *)
ManagerIds == {"a"}

(* every hash the manager sends is HashLen bytes long, on which the two    *)
(* behaviours of H256::from_slice agree: one of them is followed           *)
Init ==
    /\ sessions = [id \in ManagerIds |-> NoSession]
    /\ callers = [c \in Callers |-> IdleCaller]
    /\ strictHash = TRUE
    /\ inflight = <<>>
    /\ alive = TRUE
    /\ twice = <<>>

(* the request as the manager reads it off the wire *)
ReceivedRun(c) == Unwrap(SessionRunRequestFrom(Unwrap(UnwrapRead(MarshallerRead(callers[c].bytes)))))
ReceivedStep(c) == Unwrap(SessionStepRequestFrom(Unwrap(UnwrapRead(MarshallerRead(callers[c].bytes)))))
ReceivedNew(c) == Unwrap(NewSessionRequestFromBytes(callers[c].bytes))

Finish(c, error, result) ==
    [callers[c] EXCEPT !.pc = "done", !.error = error, !.result = result]

CallNew(c) ==
    /\ callers[c].pc = "idle"
    /\ \E id \in ManagerIds, image \in Machines :
         LET request == [machine |-> image, session_id |-> id] IN
         callers' = [callers EXCEPT ![c] =
             [IdleCaller EXCEPT !.pc = "sent", !.op = "new", !.request = request,
                                !.bytes = NewSessionRequestToBytes(request)]]
    /\ UNCHANGED <<sessions, strictHash, inflight, alive, twice>>

CallRun(c) ==
    /\ callers[c].pc = "idle"
    /\ \E id \in ManagerIds, times \in SeqsUpTo(Cycles, MaxCheckpoints) :
         LET request == [session_id |-> id, times |-> times] IN
         callers' = [callers EXCEPT ![c] =
             [IdleCaller EXCEPT !.pc = "sent", !.op = "run", !.request = request,
                                !.bytes = SessionRunRequestToBytes(request)]]
    /\ UNCHANGED <<sessions, strictHash, inflight, alive, twice>>

CallStep(c) ==
    /\ callers[c].pc = "idle"
    /\ \E id \in ManagerIds, time \in Cycles :
         /\ time < MaxCycle
         /\ LET request == [session_id |-> id, time |-> time] IN
            callers' = [callers EXCEPT ![c] =
                [IdleCaller EXCEPT !.pc = "sent", !.op = "step", !.request = request,
                                   !.bytes = SessionStepRequestToBytes(request)]]
    /\ UNCHANGED <<sessions, strictHash, inflight, alive, twice>>

(* 4.1 create_session, and the caller's decoding of the hash returned *)
ServeNew(c) ==
    /\ callers[c].pc = "sent" /\ callers[c].op = "new"
    /\ LET req == ReceivedNew(c) IN
       IF DuplicateSessionId(sessions[req.session_id])
       THEN /\ callers' = [callers EXCEPT ![c] = Finish(c, "DuplicateSessionId", <<>>)]
            /\ UNCHANGED sessions
       ELSE LET sess == NewSession(req.machine)
                reply == MarshallerWrite(WireHash(MachineHash(sess.state)))
            IN /\ sessions' = [sessions EXCEPT ![req.session_id] = sess]
               /\ callers' = [callers EXCEPT ![c] =
                      Finish(c, "", NewSessionResultFromBytes(reply).val)]
    /\ UNCHANGED <<strictHash, inflight, alive, twice>>

TargetOf(c) ==
    IF callers[c].op = "run" THEN ReceivedRun(c).session_id
    ELSE ReceivedStep(c).session_id

(* lookup fails, or the checkpoints are not strictly ascending *)
Reject(c) ==
    /\ callers[c].pc = "sent" /\ callers[c].op \in {"run", "step"}
    /\ \/ /\ ~sessions[TargetOf(c)].registered
          /\ callers' = [callers EXCEPT ![c] = Finish(c, "SessionNotFound", <<>>)]
       \/ /\ sessions[TargetOf(c)].registered
          /\ callers[c].op = "run"
          /\ ~StrictlyAscending(ReceivedRun(c).times)
          /\ callers' = [callers EXCEPT ![c] = Finish(c, "InvalidCycleOrder", <<>>)]
    /\ UNCHANGED <<sessions, strictHash, inflight, alive, twice>>

(* a mutating call takes the session's exclusive lock *)
Begin(c) ==
    /\ callers[c].pc = "sent" /\ callers[c].op \in {"run", "step"}
    /\ sessions[TargetOf(c)].registered
    /\ callers[c].op = "run" => StrictlyAscending(ReceivedRun(c).times)
    /\ LockFree(sessions[TargetOf(c)])
    /\ sessions' = [sessions EXCEPT ![TargetOf(c)].lock = c]
    /\ callers' = [callers EXCEPT ![c].pc = "running"]
    /\ UNCHANGED <<strictHash, inflight, alive, twice>>

(* the call completes: the session is committed atomically, the lock is    *)
(* released, and the caller decodes the result                             *)
CommitRun(c) ==
    /\ callers[c].pc = "running" /\ callers[c].op = "run"
    /\ LET req == ReceivedRun(c)
           out == RunProcedure(sessions[req.session_id], req.times)
           decoded == SessionRunResultFromBytes(MarshallerWrite(out.reply))
       IN /\ sessions' = [sessions EXCEPT ![req.session_id] =
                             [out.session EXCEPT !.lock = ""]]
          /\ callers' = [callers EXCEPT ![c] = Finish(c, decoded.panic, decoded.val)]
    /\ UNCHANGED <<strictHash, inflight, alive, twice>>

CommitStep(c) ==
    /\ callers[c].pc = "running" /\ callers[c].op = "step"
    /\ LET req == ReceivedStep(c)
           out == StepProcedure(sessions[req.session_id], req.time)
           decoded == SessionStepResultFromBytes(MarshallerWrite(out.reply))
       IN /\ sessions' = [sessions EXCEPT ![req.session_id] =
                             [out.session EXCEPT !.lock = ""]]
          /\ callers' = [callers EXCEPT ![c] = Finish(c, decoded.panic, decoded.val)]
    /\ UNCHANGED <<strictHash, inflight, alive, twice>>

(* the call times out: it is abandoned and the session stays as it was *)
Abandon(c) ==
    /\ callers[c].pc = "running"
    /\ sessions' = [sessions EXCEPT ![TargetOf(c)].lock = ""]
    /\ callers' = [callers EXCEPT ![c] = Finish(c, "Timeout", <<>>)]
    /\ UNCHANGED <<strictHash, inflight, alive, twice>>

Return(c) ==
    /\ callers[c].pc = "done"
    /\ callers' = [callers EXCEPT ![c] = IdleCaller]
    /\ UNCHANGED <<sessions, strictHash, inflight, alive, twice>>

Next ==
    \E c \in Callers :
        \/ CallNew(c)
        \/ CallRun(c)
        \/ CallStep(c)
        \/ ServeNew(c)
        \/ Reject(c)
        \/ Begin(c)
        \/ CommitRun(c)
        \/ CommitStep(c)
        \/ Abandon(c)
        \/ Return(c)

Spec == Init /\ [][Next]_vars

---------------------------------------------------------------------------
(* SpecTwice: two sessions created from one image and brought to the same  *)
(* state.  One is run over all the checkpoints in one call, the other in   *)
(* one call per checkpoint, in order.                                      *)

(* a SessionRun call from the typed request to the typed result *)
RunCall(sess, id, times) ==
    LET bytes == SessionRunRequestToBytes([session_id |-> id, times |-> times])
        req == Unwrap(SessionRunRequestFrom(Unwrap(UnwrapRead(MarshallerRead(bytes)))))
        out == RunProcedure(sess, req.times)
        decoded == SessionRunResultFromBytes(MarshallerWrite(out.reply))
    IN [session |-> out.session, hashes |-> Unwrap(decoded).hashes]

AscendingRuns ==
    {t \in SeqsUpTo(Cycles, MaxParts) : Len(t) > 0 /\ StrictlyAscending(t)}

InitTwice ==
    /\ \E image \in Machines, warm \in SeqsUpTo(Cycles, 1), times \in AscendingRuns :
         /\ sessions = [id \in {"whole", "parts"} |->
                           RunProcedure(NewSession(image), warm).session]
         /\ twice = [times |-> times, whole |-> <<>>, parts |-> <<>>, next |-> 1]
    /\ strictHash = TRUE
    /\ callers = <<>>
    /\ inflight = <<>>
    /\ alive = TRUE

RunWhole ==
    /\ twice.whole = <<>>
    /\ LET out == RunCall(sessions["whole"], "whole", twice.times) IN
       /\ sessions' = [sessions EXCEPT !["whole"] = out.session]
       /\ twice' = [twice EXCEPT !.whole = <<out.hashes>>]
    /\ UNCHANGED <<strictHash, callers, inflight, alive>>

RunPart ==
    /\ twice.next <= Len(twice.times)
    /\ LET out == RunCall(sessions["parts"], "parts", <<twice.times[twice.next]>>) IN
       /\ sessions' = [sessions EXCEPT !["parts"] = out.session]
       /\ twice' = [twice EXCEPT !.parts = Append(@, out.hashes), !.next = @ + 1]
    /\ UNCHANGED <<strictHash, callers, inflight, alive>>

NextTwice == RunWhole \/ RunPart

SpecTwice == InitTwice /\ [][NextTwice]_vars

RECURSIVE Flatten(_)
Flatten(lists) == IF lists = <<>> THEN <<>> ELSE Head(lists) \o Flatten(Tail(lists))

BothDone == twice.whole # <<>> /\ twice.next > Len(twice.times)

(* C8: one run over ascending checkpoints returns the hashes that one run  *)
(* per checkpoint, issued in order on a copy of the session, returns.      *)
C8_RunEqualsSplitRuns ==
    BothDone =>
        /\ Len(twice.parts) = Len(twice.times)
        /\ \A i \in 1..Len(twice.parts) : Len(twice.parts[i]) = 1
        /\ twice.whole[1] = Flatten(twice.parts)

C8_Witness ==
    /\ BothDone
    /\ Len(twice.times) = MaxParts
    /\ Len(twice.whole[1]) = MaxParts
    /\ twice.whole[1][1] # twice.whole[1][MaxParts]
    /\ Len(sessions["whole"].snapshots) > 1

---------------------------------------------------------------------------
(* Properties of the calls (Spec) *)

Succeeded(c, op) ==
    callers[c].pc = "done" /\ callers[c].op = op /\ callers[c].error = ""

(* C2: a successful run with checkpoints c1..cn returns n hashes, and the  *)
(* i-th decoded hash is the hash of the machine state at cycle ci, counted *)
(* from the session's initial state.                                       *)
C2_OneHashPerCheckpoint ==
    \A c \in Callers :
        Succeeded(c, "run") =>
            LET times == callers[c].request.times
                hashes == callers[c].result[1].hashes
                image == sessions[callers[c].request.session_id].machine
            IN /\ Len(hashes) = Len(times)
               /\ \A i \in 1..Len(times) :
                      hashes[i] = MachineHash(Replay(Genesis(image), times[i]))

C2_Witness ==
    \E c \in Callers :
        /\ Succeeded(c, "run")
        /\ Len(callers[c].request.times) = MaxCheckpoints
        /\ Len(callers[c].result[1].hashes) = MaxCheckpoints
        /\ callers[c].result[1].hashes[1] # callers[c].result[1].hashes[MaxCheckpoints]

(* C4: in the log a step returns, every access whose operation is Read has *)
(* the all-zero word as value_written.                                     *)
C4_ReadWritesZero ==
    \A c \in Callers :
        Succeeded(c, "step") =>
            \A i \in 1..Len(callers[c].result[1].log) :
                LET a == callers[c].result[1].log[i] IN
                a.operation = "Read" =>
                    /\ Len(a.value_written) = WordLen
                    /\ \A k \in 1..WordLen : a.value_written[k] = 0

C4_Witness ==
    \E c \in Callers :
        /\ Succeeded(c, "step")
        /\ \E i, j \in 1..Len(callers[c].result[1].log) :
               /\ callers[c].result[1].log[i].operation = "Read"
               /\ callers[c].result[1].log[j].operation = "Write"
               /\ \E k \in 1..WordLen : callers[c].result[1].log[j].value_written[k] # 0

(* C5: a run on a registered session whose checkpoints are not strictly    *)
(* ascending never starts; it ends with InvalidCycleOrder and the session  *)
(* is left as the last committed call left it.                             *)
C5_InvalidCycleOrder ==
    [][\A c \in Callers :
          (/\ callers[c].pc = "sent" /\ callers[c].op = "run"
           /\ sessions[callers[c].request.session_id].registered
           /\ ~StrictlyAscending(callers[c].request.times)
           /\ callers'[c] # callers[c])
          => /\ callers'[c].pc = "done"
             /\ callers'[c].error = "InvalidCycleOrder"
             /\ sessions'[callers[c].request.session_id]
                    = sessions[callers[c].request.session_id]]_vars

C5_Witness ==
    \E c \in Callers :
        /\ callers[c].pc = "done" /\ callers[c].op = "run"
        /\ callers[c].error = "InvalidCycleOrder"
        /\ Len(callers[c].request.times) = MaxCheckpoints
        /\ sessions[callers[c].request.session_id].current_cycle > 0

(* C6: create_session with an id that is registered fails with             *)
(* DuplicateSessionId and leaves the registered session as it was.         *)
C6_DuplicateSessionId ==
    [][\A c \in Callers :
          (/\ callers[c].pc = "sent" /\ callers[c].op = "new"
           /\ sessions[callers[c].request.session_id].registered
           /\ callers'[c] # callers[c])
          => /\ callers'[c].pc = "done"
             /\ callers'[c].error = "DuplicateSessionId"
             /\ callers'[c].result = <<>>
             /\ sessions' = sessions]_vars

C6_Witness ==
    \E c \in Callers :
        /\ callers[c].pc = "done" /\ callers[c].op = "new"
        /\ callers[c].error = "DuplicateSessionId"
        /\ sessions[callers[c].request.session_id].machine # callers[c].request.machine
        /\ sessions[callers[c].request.session_id].current_cycle > 0
        /\ Len(sessions[callers[c].request.session_id].snapshots) > 1

Mutating(c, id) ==
    /\ callers[c].pc = "running"
    /\ callers[c].request.session_id = id

(* C7: at most one run or step is in flight on a session, and it is the    *)
(* one that holds the session.                                             *)
C7_SingleWriter ==
    \A id \in ManagerIds :
        /\ \A c, d \in Callers : (Mutating(c, id) /\ Mutating(d, id)) => c = d
        /\ \A c \in Callers : Mutating(c, id) <=> sessions[id].lock = c

C7_Witness ==
    \E id \in ManagerIds : \E c, d \in Callers :
        /\ c # d
        /\ Mutating(c, id)
        /\ callers[d].pc = "sent" /\ callers[d].op \in {"run", "step"}
        /\ callers[d].request.session_id = id
        /\ callers[d].op = "run" => StrictlyAscending(callers[d].request.times)

---------------------------------------------------------------------------
(* Properties of the decoding (SpecDecode) *)

Acted(r) == inflight[r].status \in {"decoded", "panicked"}

IsStepSlot(r) == inflight[r].kind = "SessionStepResult"

(* the wire accesses of a step result that was decoded *)
WireLogOf(r) == inflight[r].input.proto[1].log[1].accesses
DecodedLogOf(r) == inflight[r].val[1].log

DecodedStep(r) == IsStepSlot(r) /\ inflight[r].status = "decoded"

(* a required field is absent from the message, read off the wire message *)
ProofLacksField(p) == p.target_hash = None \/ p.root_hash = None
AccessLacksField(a) ==
    \/ a.proof = None
    \/ a.read = None
    \/ a.written = None
    \/ (a.proof # None /\ ProofLacksField(a.proof[1]))
LacksRequiredField(kind, input) ==
    CASE kind \in {"SessionRunRequest", "SessionStepRequest"} -> FALSE
      [] kind = "SessionReadMemoryRequest" -> input.position = None
      [] kind = "SessionGetProofRequest" -> input.target = None
      [] OTHER ->
           /\ input.proto # None
           /\ LET m == input.proto[1] IN
              CASE kind = "NewSessionRequest" -> m.machine = None
                [] kind = "SessionGetProofResult" -> ProofLacksField(m)
                [] kind = "SessionReadMemoryResult" -> m.read_content = None
                [] kind = "SessionStepResult" ->
                     \/ m.log = None
                     \/ \E i \in 1..Len(m.log[1].accesses) :
                            AccessLacksField(m.log[1].accesses[i])
                [] OTHER -> FALSE

(* C1: decoding a message that lacks a required field ends in an error     *)
(* outcome of that one request (not a panic), produces no decoded value,   *)
(* and leaves every other request in flight to complete.                   *)
C1_MalformedRequestScoped ==
    \A r \in Slots :
        (Acted(r) /\ LacksRequiredField(inflight[r].kind, inflight[r].input)) =>
            /\ inflight[r].val = <<>>
            /\ inflight[r].status # "panicked"
            /\ \A q \in Slots \ {r} : inflight[q].status # "aborted"

(* C3: the decoded log of a step result has as many entries as the wire    *)
(* log, and entry i is the conversion of wire access i.                    *)
C3_LogKeepsOrder ==
    \A r \in Slots :
        DecodedStep(r) =>
            /\ Len(DecodedLogOf(r)) = Len(WireLogOf(r))
            /\ \A i \in 1..Len(WireLogOf(r)) :
                   /\ IsOk(AccessFrom(WireLogOf(r)[i]))
                   /\ DecodedLogOf(r)[i] = Unwrap(AccessFrom(WireLogOf(r)[i]))

C3_Witness ==
    \E r \in Slots :
        /\ DecodedStep(r)
        /\ Len(DecodedLogOf(r)) = MaxLogLen
        /\ DecodedLogOf(r)[1] # DecodedLogOf(r)[MaxLogLen]

(* C9: every decoded access has the address of its own proof, which is     *)
(* the address the wire proof carries, for reads and for writes.           *)
C9_AddressIsProofAddress ==
    \A r \in Slots :
        DecodedStep(r) =>
            \A i \in 1..Len(DecodedLogOf(r)) :
                /\ DecodedLogOf(r)[i].address = DecodedLogOf(r)[i].proof.address
                /\ i <= Len(WireLogOf(r))
                /\ WireLogOf(r)[i].proof # None
                /\ DecodedLogOf(r)[i].address = WireLogOf(r)[i].proof[1].address

C9_Witness ==
    \E r \in Slots :
        /\ DecodedStep(r)
        /\ \E i, j \in 1..Len(DecodedLogOf(r)) :
               /\ DecodedLogOf(r)[i].operation = "Read"
               /\ DecodedLogOf(r)[j].operation = "Write"
               /\ DecodedLogOf(r)[i].address # DecodedLogOf(r)[j].address

WrongSize(word) == word # None /\ Len(word[1].content) # WordLen

(* C10: an access is decoded only when its read and its written content    *)
(* are WordLen bytes each, value_read and value_written are those bytes in *)
(* order; a content of any other length aborts the decoding and no value   *)
(* is produced.                                                            *)
C10_WordsAreEightBytes ==
    \A r \in Slots :
        /\ DecodedStep(r) =>
             \A i \in 1..Len(WireLogOf(r)) :
                 LET w == WireLogOf(r)[i] IN
                 /\ w.read # None /\ w.written # None
                 /\ Len(w.read[1].content) = WordLen
                 /\ Len(w.written[1].content) = WordLen
                 /\ i <= Len(DecodedLogOf(r))
                 /\ Len(DecodedLogOf(r)[i].value_read) = WordLen
                 /\ Len(DecodedLogOf(r)[i].value_written) = WordLen
                 /\ \A k \in 1..WordLen :
                        /\ DecodedLogOf(r)[i].value_read[k] = w.read[1].content[k]
                        /\ DecodedLogOf(r)[i].value_written[k] = w.written[1].content[k]
        /\ (/\ IsStepSlot(r) /\ Acted(r)
            /\ inflight[r].input.proto # None
            /\ inflight[r].input.proto[1].log # None
            /\ \E i \in 1..Len(WireLogOf(r)) :
                   WrongSize(WireLogOf(r)[i].read) \/ WrongSize(WireLogOf(r)[i].written))
           => (inflight[r].status = "panicked" /\ inflight[r].val = <<>>)

C10_Witness ==
    /\ \E r \in Slots :
           /\ DecodedStep(r)
           /\ Len(DecodedLogOf(r)) > 0
           /\ DecodedLogOf(r)[1].value_read = Ramp(WordLen, 0)
    /\ \E q \in Slots :
           /\ IsStepSlot(q)
           /\ inflight[q].panic = "write value has the wrong size"
           /\ WireLogOf(q)[1].written[1].content = Ramp(WordLen + 1, 0)

=============================================================================
